---- MODULE Spec2Model ----
(***************************************************************************)
(* The job endpoints of src/server.js (the "OpenAI + Gemini TTS + Jobs"    *)
(* variant, lines 406-883): POST /suggest/jobs inserts a row in the        *)
(* Supabase table `jobs`, answers, and runs runSuggestJob from a timer;    *)
(* GET /suggest/jobs/:id reads the row back.                               *)
(*                                                                         *)
(* Every await of the handlers is a step boundary: an action is the        *)
(* synchronous code between two awaits.  The store and the text-generation *)
(* service are the environment: each call either succeeds or reports an    *)
(* error, and a store write that reports an error has not been applied.    *)
(***************************************************************************)
EXTENDS Integers, Sequences, FiniteSets, TLC

\* Bound: submissions that reach the store (rows created + inserts in flight).
MaxJobs == 2

\* JavaScript null in a column or a field.
Null == "<null>"

\* req.body.type: missing, the two supported work types, an unsupported one.
Types == {"", "suggest_classify", "suggest_practice", "bogus"}

\* req.body.input.text: empty or a diary text.
Texts == {"", "diary"}

Bodies == [type : Types, text : Texts]

\* What the text-generation call can do (callOpenAI): a parsed reply, a
\* rejected fetch (with or without a message), a non-2xx status, a body that
\* does not parse.
GenOutcomes == {"ok", "transport", "transport_nomsg", "http_error", "unparsable"}

VARIABLES
  supabase,    \* the Supabase client exists (SUPABASE_URL and key are set)
  openaiKey,   \* OPENAI_API_KEY is set
  jobs,        \* table `jobs`: row id |-> row
  inserts,     \* inserts of POST /suggest/jobs awaiting the store
  exec,        \* per job: where its runSuggestJob stands
  replied,     \* ids of the jobs whose submit response has been sent
  submitResp,  \* response sent by POST /suggest/jobs in the last step
  pollResp,    \* response sent by GET /suggest/jobs/:id in the last step
  tts,         \* one call of synthesizeLinesWith{Gemini,Vertex}TTS
  practice     \* one request to POST /practice

vars == <<supabase, openaiKey, jobs, inserts, exec, replied, submitResp, pollResp,
          tts, practice>>

JobIds == 1..Len(jobs)

NoSubmit == [http |-> 0, ok |-> FALSE, jobId |-> 0, error |-> Null]

NoJob == [user_id |-> Null, type |-> Null, input |-> Null,
          status |-> Null, result |-> Null, error |-> Null]

NoPoll == [id |-> 0, http |-> 0, ok |-> FALSE, job |-> NoJob, error |-> Null]

Terminal(job) == job.status \in {"done", "error"}

\* No speech synthesis under way, no /practice request under way.
NoTts == [pc |-> "idle"]

NoPractice == [pc |-> "idle"]

----------------------------------------------------------------------------
\* Pure helpers.

\* String(e?.message || e): the message, or the error's name when it is empty.
ErrString(e) == IF e # "" THEN e ELSE "Error"

\* Mutant of NewJob: the row is inserted with a status outside the job's states.
NewJob_Pending(body) ==
  [user_id |-> Null, type |-> body.type, input |-> body.text,
   status |-> "pending", result |-> Null, error |-> Null]

\* The row inserted by POST /suggest/jobs; result and error default to null.
NewJob(body) ==
  [user_id |-> Null, type |-> body.type, input |-> body.text,
   status |-> "queued", result |-> Null, error |-> Null]

PatchRunning == [status |-> "running", error |-> Null]

\* Mutant of PatchDone: the result column is left out of the patch.
PatchDone_NoResult(result) == [status |-> "done", error |-> Null]

PatchDone(result) == [status |-> "done", result |-> result, error |-> Null]

PatchError(e) == [status |-> "error", error |-> ErrString(e)]

\* .update({ ...patch }).eq('id', jobId): the patched columns change, the
\* others keep their value; no condition on the row's current status.
updateJob(js, jobId, patch) ==
  [js EXCEPT ![jobId] =
     [f \in DOMAIN @ |-> IF f \in DOMAIN patch THEN patch[f] ELSE @[f]]]

\* The message of the error callOpenAI throws for a failed outcome.
GenError(outcome) ==
  CASE outcome = "transport"       -> "fetch failed"
    [] outcome = "transport_nomsg" -> ""
    [] outcome = "http_error"      -> "OPENAI ERROR body"
    [] outcome = "unparsable"      -> "Unexpected token in JSON"

\* The payload suggestClassify / suggestPractice return.
GenResult(type) ==
  IF type = "suggest_classify" THEN "classify:gpt-4.1-mini" ELSE "practice:gpt-5.1"

\* runSuggestJob entered: nothing thrown, no result, no call issued yet.
NewExec == [pc |-> "timer", e |-> Null, result |-> Null, calls |-> 0]

\* catch (e) of runSuggestJob: updateJob(jobId, {status:'error', ...}) is issued.
Caught(x, e) == [x EXCEPT !.pc = "upd_error", !.e = e]

\* runSuggestJob returns: its locals (result, e) are gone.
Finished(x) == [x EXCEPT !.pc = "finished", !.e = Null, !.result = Null]

\* The type dispatch of runSuggestJob up to its first await: callOpenAI
\* throws before fetch without a key, an unknown type throws at once.
Dispatch(x, type, key) ==
  IF type \in {"suggest_classify", "suggest_practice"}
  THEN IF key
       THEN [x EXCEPT !.pc = "generate", !.calls = @ + 1]
       ELSE Caught(x, "OPENAI_API_KEY missing")
  ELSE Caught(x, "Unknown job type: " \o type)

\* Mutant of RepliedAfterInsert: the run is scheduled, the response is not sent.
RepliedAfterInsert_NoReply(r, jobId) == r

\* res.json({ ok: true, jobId }) precedes setTimeout in the handler.
RepliedAfterInsert(r, jobId) == r \cup {jobId}

\* Mutant of PollResponse: a row that is not terminal is answered 202.
PollResponse_Accepted(js, id, lookupFails) ==
  IF lookupFails
  THEN [id |-> id, http |-> 404, ok |-> FALSE, job |-> NoJob,
        error |-> "store error"]
  ELSE IF id \notin 1..Len(js)
  THEN [id |-> id, http |-> 404, ok |-> FALSE, job |-> NoJob,
        error |-> "JSON object requested, multiple (or no) rows returned"]
  ELSE [id |-> id, http |-> IF Terminal(js[id]) THEN 200 ELSE 202,
        ok |-> TRUE, job |-> js[id], error |-> Null]

\* The body of the GET handler once the select has come back.
PollResponse(js, id, lookupFails) ==
  IF lookupFails
  THEN [id |-> id, http |-> 404, ok |-> FALSE, job |-> NoJob,
        error |-> "store error"]
  ELSE IF id \notin 1..Len(js)
  THEN [id |-> id, http |-> 404, ok |-> FALSE, job |-> NoJob,
        error |-> "JSON object requested, multiple (or no) rows returned"]
  ELSE [id |-> id, http |-> 200, ok |-> TRUE, job |-> js[id], error |-> Null]

RemoveAt(s, i) == SubSeq(s, 1, i - 1) \o SubSeq(s, i + 1, Len(s))

----------------------------------------------------------------------------
Init ==
  /\ supabase \in BOOLEAN
  /\ openaiKey \in BOOLEAN
  /\ jobs = <<>>
  /\ inserts = <<>>
  /\ exec = <<>>
  /\ replied = {}
  /\ submitResp = NoSubmit
  /\ pollResp = NoPoll
  /\ tts = NoTts
  /\ practice = NoPractice

\* POST /suggest/jobs without a Supabase client: 500.
SubmitNoSupabase(body) ==
  /\ ~supabase
  /\ submitResp' = [http |-> 500, ok |-> FALSE, jobId |-> 0,
                    error |-> "Supabase config missing"]
  /\ pollResp' = NoPoll
  /\ UNCHANGED <<tts, practice, supabase, openaiKey, jobs, inserts, exec, replied>>

\* POST /suggest/jobs without a type: 400.
SubmitNoType(body) ==
  /\ supabase
  /\ body.type = ""
  /\ submitResp' = [http |-> 400, ok |-> FALSE, jobId |-> 0,
                    error |-> "type is required"]
  /\ pollResp' = NoPoll
  /\ UNCHANGED <<tts, practice, supabase, openaiKey, jobs, inserts, exec, replied>>

\* POST /suggest/jobs up to its await: the insert is issued.
SubmitInsert(body) ==
  /\ supabase
  /\ body.type # ""
  /\ Len(jobs) + Len(inserts) < MaxJobs
  /\ inserts' = Append(inserts, body)
  /\ submitResp' = NoSubmit
  /\ pollResp' = NoPoll
  /\ UNCHANGED <<tts, practice, supabase, openaiKey, jobs, exec, replied>>

\* The insert returns a row: respond with its id, then schedule the run.
InsertOk(i) ==
  /\ i \in 1..Len(inserts)
  /\ LET jobId == Len(jobs) + 1 IN
       /\ jobs' = Append(jobs, NewJob(inserts[i]))
       /\ submitResp' = [http |-> 200, ok |-> TRUE, jobId |-> jobId, error |-> Null]
       /\ replied' = RepliedAfterInsert(replied, jobId)
       /\ exec' = Append(exec, NewExec)
  /\ inserts' = RemoveAt(inserts, i)
  /\ pollResp' = NoPoll
  /\ UNCHANGED <<tts, practice, supabase, openaiKey>>

\* The insert returns an error: thrown, caught by the handler, 500.
InsertFail(i) ==
  /\ i \in 1..Len(inserts)
  /\ inserts' = RemoveAt(inserts, i)
  /\ submitResp' = [http |-> 500, ok |-> FALSE, jobId |-> 0, error |-> "store error"]
  /\ pollResp' = NoPoll
  /\ UNCHANGED <<tts, practice, supabase, openaiKey, jobs, exec, replied>>

\* The timer fires: runSuggestJob runs up to await updateJob({status:'running'}).
TimerFire(j) ==
  /\ j \in JobIds
  /\ exec[j].pc = "timer"
  /\ exec' = [exec EXCEPT ![j] =
                IF supabase THEN [@ EXCEPT !.pc = "upd_running"]
                ELSE Caught(@, "Supabase client missing")]
  /\ submitResp' = NoSubmit
  /\ pollResp' = NoPoll
  /\ UNCHANGED <<tts, practice, supabase, openaiKey, jobs, inserts, replied>>

\* updateJob(running) returns: on success the work is dispatched, on error
\* the catch block issues updateJob(error).
UpdRunningReturn(j, ok) ==
  /\ j \in JobIds
  /\ exec[j].pc = "upd_running"
  /\ IF ok
     THEN /\ jobs' = updateJob(jobs, j, PatchRunning)
          /\ exec' = [exec EXCEPT ![j] = Dispatch(@, jobs[j].type, openaiKey)]
     ELSE /\ jobs' = jobs
          /\ exec' = [exec EXCEPT ![j] = Caught(@, "store error")]
  /\ submitResp' = NoSubmit
  /\ pollResp' = NoPoll
  /\ UNCHANGED <<tts, practice, supabase, openaiKey, inserts, replied>>

\* The text-generation call returns.
GenReturn(j, outcome) ==
  /\ j \in JobIds
  /\ exec[j].pc = "generate"
  /\ exec' = [exec EXCEPT ![j] =
                IF outcome # "ok" THEN Caught(@, GenError(outcome))
                ELSE IF jobs[j].type = "suggest_practice"
                THEN [@ EXCEPT !.pc = "tts"]
                ELSE [@ EXCEPT !.pc = "upd_done", !.result = GenResult(jobs[j].type)]]
  /\ submitResp' = NoSubmit
  /\ pollResp' = NoPoll
  /\ UNCHANGED <<tts, practice, supabase, openaiKey, jobs, inserts, replied>>

\* suggestPractice: the speech synthesis of the seven lines has settled
\* (every entry audio or null); updateJob(done) is issued.
TtsReturn(j) ==
  /\ j \in JobIds
  /\ exec[j].pc = "tts"
  /\ exec' = [exec EXCEPT ![j] =
                [@ EXCEPT !.pc = "upd_done", !.result = GenResult(jobs[j].type)]]
  /\ submitResp' = NoSubmit
  /\ pollResp' = NoPoll
  /\ UNCHANGED <<tts, practice, supabase, openaiKey, jobs, inserts, replied>>

\* Mutant of UpdDoneReturn: the try block throws after the row was set to
\* done, so the catch block runs on a terminal job.
UpdDoneReturn_ThrowAfter(j, ok) ==
  /\ j \in JobIds
  /\ exec[j].pc = "upd_done"
  /\ IF ok
     THEN /\ jobs' = updateJob(jobs, j, PatchDone(exec[j].result))
          /\ exec' = [exec EXCEPT ![j] = Caught(@, "late error")]
     ELSE /\ jobs' = jobs
          /\ exec' = [exec EXCEPT ![j] = Caught(@, "store error")]
  /\ submitResp' = NoSubmit
  /\ pollResp' = NoPoll
  /\ UNCHANGED <<tts, practice, supabase, openaiKey, inserts, replied>>

\* updateJob(done) returns.
UpdDoneReturn(j, ok) ==
  /\ j \in JobIds
  /\ exec[j].pc = "upd_done"
  /\ IF ok
     THEN /\ jobs' = updateJob(jobs, j, PatchDone(exec[j].result))
          /\ exec' = [exec EXCEPT ![j] = Finished(@)]
     ELSE /\ jobs' = jobs
          /\ exec' = [exec EXCEPT ![j] = Caught(@, "store error")]
  /\ submitResp' = NoSubmit
  /\ pollResp' = NoPoll
  /\ UNCHANGED <<tts, practice, supabase, openaiKey, inserts, replied>>

\* updateJob(error) returns; its own failure is logged and dropped.
UpdErrorReturn(j, ok) ==
  /\ j \in JobIds
  /\ exec[j].pc = "upd_error"
  /\ jobs' = IF ok THEN updateJob(jobs, j, PatchError(exec[j].e)) ELSE jobs
  /\ exec' = [exec EXCEPT ![j] = Finished(@)]
  /\ submitResp' = NoSubmit
  /\ pollResp' = NoPoll
  /\ UNCHANGED <<tts, practice, supabase, openaiKey, inserts, replied>>

\* GET /suggest/jobs/:id without a Supabase client: 500.
PollNoSupabase(id) ==
  /\ ~supabase
  /\ id <= Len(jobs) + 1
  /\ pollResp' = [id |-> id, http |-> 500, ok |-> FALSE, job |-> NoJob,
                  error |-> "Supabase config missing"]
  /\ submitResp' = NoSubmit
  /\ UNCHANGED <<tts, practice, supabase, openaiKey, jobs, inserts, exec, replied>>

\* GET /suggest/jobs/:id: select ... .single(), then the response.
PollJob(id, lookupFails) ==
  /\ supabase
  /\ id <= Len(jobs) + 1
  /\ pollResp' = PollResponse(jobs, id, lookupFails)
  /\ submitResp' = NoSubmit
  /\ UNCHANGED <<tts, practice, supabase, openaiKey, jobs, inserts, exec, replied>>

\* Identifiers a poller asks for: the rows and one identifier never issued.
PollIds == 1..(MaxJobs + 1)

\* Bodies submitted while polls are studied: the text plays no part in a poll.
PollBodies == {b \in Bodies : b.text = "diary"}

SubmitStep(B) ==
  \/ \E body \in B : SubmitNoSupabase(body)
  \/ \E body \in B : SubmitNoType(body)
  \/ \E body \in B : SubmitInsert(body)
  \/ \E i \in 1..MaxJobs : InsertOk(i)
  \/ \E i \in 1..MaxJobs : InsertFail(i)

RunStep ==
  \/ \E j \in 1..MaxJobs : TimerFire(j)
  \/ \E j \in 1..MaxJobs, ok \in BOOLEAN : UpdRunningReturn(j, ok)
  \/ \E j \in 1..MaxJobs, outcome \in GenOutcomes : GenReturn(j, outcome)
  \/ \E j \in 1..MaxJobs : TtsReturn(j)
  \/ \E j \in 1..MaxJobs, ok \in BOOLEAN : UpdDoneReturn(j, ok)
  \/ \E j \in 1..MaxJobs, ok \in BOOLEAN : UpdErrorReturn(j, ok)

PollStep ==
  \/ \E id \in PollIds : PollNoSupabase(id)
  \/ \E id \in PollIds, lookupFails \in BOOLEAN : PollJob(id, lookupFails)

\* Submission and execution of jobs.
Next == SubmitStep(Bodies) \/ RunStep

Spec == Init /\ [][Next]_vars

\* Submission, execution and polling.
PollNext == SubmitStep(PollBodies) \/ RunStep \/ PollStep

PollSpec == Init /\ [][PollNext]_vars

----------------------------------------------------------------------------
\* Speech synthesis: synthesizeLinesWithGeminiTTS (src/server.js:536-612), which
\* starts one task per line and awaits Promise.all, and
\* synthesizeLinesWithVertexTTS (src/server.js:132-236), which loops over the
\* lines and awaits each call.  The function is reached only after callOpenAI
\* has used fetch, so fetch exists.

\* Bound: number of lines handed to the synthesis.
MaxLines == 3

\* A line: empty, or one of two distinct sentences.
LineTexts == {"", "a", "b"}

LineLists == UNION {[1..n -> LineTexts] : n \in 0..MaxLines}

\* What one synthesis call can do: audio found, non-2xx status, a thrown
\* exception (fetch or json), a reply without an audio part.
TtsOutcomes == {"ok", "http_error", "exception", "no_audio"}

\* A task that has not settled yet.
Unset == "<unset>"

\* The base64 audio the provider returns for a text.
Audio(text) == "audio:" \o text

\* The entry one call contributes: base64audio || null.
TtsValue(outcome, text) == IF outcome = "ok" THEN Audio(text) ELSE Null

\* lines.map(() => null)
AllNull(lines) == [i \in 1..Len(lines) |-> Null]

\* The indices of the empty lines, in input order.
EmptyIdx(lines) ==
  SelectSeq([i \in 1..Len(lines) |-> i], LAMBDA i : lines[i] = "")

\* synthesizeLines...(lines) has just been called.
TtsCall(variant, configured, lines) ==
  [pc |-> "called", variant |-> variant, configured |-> configured,
   lines |-> lines, inflight |-> {},
   settled |-> [i \in 1..Len(lines) |-> Unset],
   kind |-> [i \in 1..Len(lines) |-> "none"],
   order |-> <<>>, results |-> <<>>]

TtsReturned(t, results) == [t EXCEPT !.pc = "returned", !.results = results]

\* Mutant of PromiseAll: the values are collected in the order the tasks settle.
PromiseAll_ByCompletion(settled, order) ==
  [k \in 1..Len(order) |-> settled[order[k]]]

\* Promise.all(tasks): the values in the order of the tasks.
PromiseAll(settled, order) == [i \in 1..Len(settled) |-> settled[i]]

\* Mutant of VertexPush: the HTTP-error branch continues without pushing null.
VertexPush_Skip(results, outcome, text) ==
  IF outcome = "http_error" THEN results
  ELSE Append(results, TtsValue(outcome, text))

\* results.push(...) of the Vertex loop for a call that has come back.
VertexPush(results, outcome, text) == Append(results, TtsValue(outcome, text))

\* The Vertex loop from line k up to its next await: empty lines push null,
\* the first non-empty line has its call issued; past the end it returns.
RECURSIVE VertexLoop(_, _)
VertexLoop(t, k) ==
  IF k > Len(t.lines) THEN [t EXCEPT !.pc = "returned", !.inflight = {}]
  ELSE IF t.lines[k] = ""
  THEN VertexLoop([t EXCEPT !.results = Append(@, Null),
                            !.order = Append(@, k)], k + 1)
  ELSE [t EXCEPT !.pc = "awaiting", !.inflight = {k}]

TtsQuiet ==
  /\ submitResp' = NoSubmit
  /\ pollResp' = NoPoll
  /\ UNCHANGED <<practice, supabase, openaiKey, jobs, inserts, exec, replied>>

\* Gemini: the function body up to await Promise.all(tasks).
GeminiStart ==
  /\ tts.pc = "called" /\ tts.variant = "gemini"
  /\ tts' = IF tts.lines = <<>> THEN TtsReturned(tts, <<>>)
            ELSE IF ~tts.configured THEN TtsReturned(tts, AllNull(tts.lines))
            ELSE [tts EXCEPT
                    !.pc = "awaiting",
                    !.inflight = {i \in 1..Len(tts.lines) : tts.lines[i] # ""},
                    !.settled = [i \in 1..Len(tts.lines) |->
                                   IF tts.lines[i] = "" THEN Null ELSE Unset],
                    !.order = EmptyIdx(tts.lines)]
  /\ TtsQuiet

\* Gemini: the call of task i comes back and the task settles.
GeminiCallReturn(i, outcome) ==
  /\ tts.pc = "awaiting" /\ tts.variant = "gemini"
  /\ i \in tts.inflight
  /\ tts' = [tts EXCEPT
               !.inflight = @ \ {i},
               !.settled[i] = TtsValue(outcome, tts.lines[i]),
               !.kind[i] = outcome,
               !.order = Append(@, i)]
  /\ TtsQuiet

\* Gemini: every task has settled, Promise.all resolves and the function returns.
GeminiAllSettled ==
  /\ tts.pc = "awaiting" /\ tts.variant = "gemini"
  /\ tts.inflight = {}
  /\ tts' = TtsReturned(tts, PromiseAll(tts.settled, tts.order))
  /\ TtsQuiet

\* Vertex: the function body up to await getVertexAccessToken().
VertexStart ==
  /\ tts.pc = "called" /\ tts.variant = "vertex"
  /\ tts' = IF tts.lines = <<>> THEN TtsReturned(tts, <<>>)
            ELSE IF ~tts.configured THEN TtsReturned(tts, AllNull(tts.lines))
            ELSE [tts EXCEPT !.pc = "token"]
  /\ TtsQuiet

\* Vertex: the token request comes back: a token, an exception, or no token.
VertexTokenReturn(tok) ==
  /\ tts.pc = "token"
  /\ tts' = IF tok = "ok" THEN VertexLoop(tts, 1)
            ELSE TtsReturned(tts, AllNull(tts.lines))
  /\ TtsQuiet

\* Vertex: the call of the current line comes back; the loop goes on.
VertexCallReturn(outcome) ==
  /\ tts.pc = "awaiting" /\ tts.variant = "vertex"
  /\ \E k \in tts.inflight :
       tts' = VertexLoop([tts EXCEPT
                            !.results = VertexPush(@, outcome, tts.lines[k]),
                            !.kind[k] = outcome,
                            !.order = Append(@, k)], k + 1)
  /\ TtsQuiet

TtsInit ==
  /\ supabase = TRUE
  /\ openaiKey = TRUE
  /\ jobs = <<>>
  /\ inserts = <<>>
  /\ exec = <<>>
  /\ replied = {}
  /\ submitResp = NoSubmit
  /\ pollResp = NoPoll
  /\ practice = NoPractice
  /\ tts \in {TtsCall(v, c, l) :
               v \in {"gemini", "vertex"}, c \in BOOLEAN, l \in LineLists}

TtsNext ==
  \/ GeminiStart
  \/ \E i \in 1..MaxLines, outcome \in TtsOutcomes : GeminiCallReturn(i, outcome)
  \/ GeminiAllSettled
  \/ VertexStart
  \/ \E tok \in {"ok", "throws", "empty"} : VertexTokenReturn(tok)
  \/ \E outcome \in TtsOutcomes : VertexCallReturn(outcome)

TtsSpec == TtsInit /\ [][TtsNext]_vars

----------------------------------------------------------------------------
\* The practice task: suggestPractice (src/server.js:714-754, called by
\* runSuggestJob and by POST /practice at 864-873), POST /practice of the
\* Vertex variant (src/server.js:347-393) and POST /practice of
\* src/unnamed/part_000 (192-237), which has no speech synthesis.

\* Bound: number of entries in a text-generation reply.
MaxReply == 8

\* Number of sentences of a practice result.
PracticeCount == 7

PracticeVariants == {"jobs", "vertex", "render"}

\* A text is a sequence of characters: " " is white space, "'" a quote,
\* "H" "L" the two halves of a surrogate pair, "?" and "!" closing punctuation.
Punct == {"?", "!"}

\* Texts of reply entries: one that is empty after clean-up, and a sentence.
RawTexts ==
  { <<" ", "'", "H", "L", "?", "!", " ">>,
    <<" ", "x", "'", " ", "x", "?">> }

RECURSIVE TrimLeft(_)
TrimLeft(s) == IF s # <<>> /\ Head(s) = " " THEN TrimLeft(Tail(s)) ELSE s

RECURSIVE TrimRight(_)
TrimRight(s) ==
  IF s # <<>> /\ s[Len(s)] = " " THEN TrimRight(SubSeq(s, 1, Len(s) - 1)) ELSE s

\* String.prototype.trim
Trim(s) == TrimRight(TrimLeft(s))

\* .replace(/["']/g, '')
RemoveQuotes(s) == SelectSeq(s, LAMBDA c : c # "'")

\* .replace(/[\uD800-\uDBFF][\uDC00-\uDFFF]/g, '')
RECURSIVE RemoveEmoji(_)
RemoveEmoji(s) ==
  IF s = <<>> THEN <<>>
  ELSE IF Len(s) >= 2 /\ s[1] = "H" /\ s[2] = "L"
  THEN RemoveEmoji(SubSeq(s, 3, Len(s)))
  ELSE <<Head(s)>> \o RemoveEmoji(Tail(s))

\* .replace(/[?!...]+$/, '')
RECURSIVE StripTrailing(_)
StripTrailing(s) ==
  IF s # <<>> /\ s[Len(s)] \in Punct
  THEN StripTrailing(SubSeq(s, 1, Len(s) - 1)) ELSE s

\* The characters as one string.
RECURSIVE Join(_)
Join(s) == IF s = <<>> THEN "" ELSE Head(s) \o Join(Tail(s))

normalizeDa(t) ==
  Join(Trim(StripTrailing(RemoveEmoji(RemoveQuotes(Trim(t))))))

\* The default sentence pushed while fewer than seven remain.
DefaultSentence == <<"d", "e", "f", "a", "u", "l", "t">>

\* An element of arr: an object { text } or null.
Entry(t) == [isNull |-> FALSE, text |-> t]

NullEntry == [isNull |-> TRUE, text |-> ""]

\* Boolean(x) of an element of arr: every object is truthy, null is not.
Boolean(e) == ~e.isNull

\* A parsed reply: practice_sets_json or sentences holding an array, or neither.
Replies ==
  {[kind |-> "none", items |-> <<>>]} \cup
  {[kind |-> k, items |-> l] :
     k \in {"practice_sets_json", "sentences"},
     l \in UNION {[1..n -> RawTexts] : n \in 0..MaxReply}}

\* .slice(0, 7)
Slice7(items) ==
  SubSeq(items, 1, IF Len(items) < PracticeCount THEN Len(items) ELSE PracticeCount)

\* while (arr.length < 7) arr.push(d)
RECURSIVE PadTo7(_, _)
PadTo7(arr, d) ==
  IF Len(arr) < PracticeCount THEN PadTo7(Append(arr, d), d) ELSE arr

\* suggestPractice: .map((x) => ({ text: normalizeDa(x.text) })).filter(Boolean), then the padding.
SentencesJobs(items) ==
  PadTo7(SelectSeq([i \in 1..Len(Slice7(items)) |->
                      Entry(normalizeDa(Slice7(items)[i]))],
                   Boolean),
         Entry(Join(DefaultSentence)))

\* Vertex /practice: the same map, .filter((x) => x.text), then the padding.
SentencesVertex(items) ==
  PadTo7(SelectSeq([i \in 1..Len(Slice7(items)) |->
                      Entry(normalizeDa(Slice7(items)[i]))],
                   LAMBDA x : x.text # ""),
         Entry(Join(DefaultSentence)))

\* part_000 /practice: map to { text: t } or null, .filter(Boolean), padding with the cleaned default.
SentencesRender(items) ==
  PadTo7(SelectSeq([i \in 1..Len(Slice7(items)) |->
                      IF normalizeDa(Slice7(items)[i]) # ""
                      THEN Entry(normalizeDa(Slice7(items)[i]))
                      ELSE NullEntry],
                   Boolean),
         Entry(normalizeDa(DefaultSentence)))

Sentences(variant, reply) ==
  IF reply.kind = "none" THEN
    CASE variant = "jobs" -> SentencesJobs(<<>>)
      [] variant = "vertex" -> SentencesVertex(<<>>)
      [] OTHER -> SentencesRender(<<>>)
  ELSE
    CASE variant = "jobs" -> SentencesJobs(reply.items)
      [] variant = "vertex" -> SentencesVertex(reply.items)
      [] OTHER -> SentencesRender(reply.items)

\* The result carries no audio_base64_list.
NoAudio == <<"<no audio list>">>

\* What the synthesis can do to a practice request: every call succeeds, the
\* first call fails, the provider is not configured.
TtsModes == {"up", "first_fails", "down"}

\* The list the synthesis returns for the lines (one entry per line, null for
\* an empty line or a failed call).
Synthesized(lines, mode) ==
  [i \in 1..Len(lines) |->
     IF lines[i] = "" \/ mode = "down" \/ (mode = "first_fails" /\ i = 1)
     THEN Null ELSE Audio(lines[i])]

\* A practice request has arrived.
PracticeCall(variant, text) ==
  [pc |-> "called", variant |-> variant, text |-> text,
   reply |-> [kind |-> "none", items |-> <<>>],
   arr |-> <<>>, audio |-> NoAudio, http |-> 0]

PracticeQuiet ==
  /\ submitResp' = NoSubmit
  /\ pollResp' = NoPoll
  /\ UNCHANGED <<tts, supabase, openaiKey, jobs, inserts, exec, replied>>

\* The handler up to await callOpenAI: only part_000 rejects an empty text.
PracticeStart ==
  /\ practice.pc = "called"
  /\ practice' = IF practice.variant = "render" /\ practice.text = ""
                 THEN [practice EXCEPT !.pc = "responded", !.http = 400]
                 ELSE [practice EXCEPT !.pc = "generating"]
  /\ PracticeQuiet

\* callOpenAI throws (transport, HTTP status, unparsable reply): 500.
PracticeGenFail ==
  /\ practice.pc = "generating"
  /\ practice' = [practice EXCEPT !.pc = "responded", !.http = 500]
  /\ PracticeQuiet

\* callOpenAI returns a parsed reply: arr is built; part_000 answers, the
\* variants of server.js go on to the synthesis.
PracticeGenReturn(reply) ==
  /\ practice.pc = "generating"
  /\ practice' = IF practice.variant = "render"
                 THEN [practice EXCEPT !.pc = "responded", !.http = 200,
                                       !.reply = reply,
                                       !.arr = Sentences("render", reply)]
                 ELSE [practice EXCEPT !.pc = "tts", !.reply = reply,
                                       !.arr = Sentences(practice.variant, reply)]
  /\ PracticeQuiet

\* The synthesis returns and the result is sent.
PracticeTtsReturn(mode) ==
  /\ practice.pc = "tts"
  /\ practice' = [practice EXCEPT
                    !.pc = "responded", !.http = 200,
                    !.audio = Synthesized([i \in 1..Len(practice.arr) |->
                                             practice.arr[i].text], mode)]
  /\ PracticeQuiet

PracticeInit ==
  /\ supabase = TRUE
  /\ openaiKey = TRUE
  /\ jobs = <<>>
  /\ inserts = <<>>
  /\ exec = <<>>
  /\ replied = {}
  /\ submitResp = NoSubmit
  /\ pollResp = NoPoll
  /\ tts = NoTts
  /\ practice \in {PracticeCall(v, t) : v \in PracticeVariants, t \in Texts}

PracticeNext ==
  \/ PracticeStart
  \/ PracticeGenFail
  \/ \E reply \in Replies : PracticeGenReturn(reply)
  \/ \E mode \in TtsModes : PracticeTtsReturn(mode)

PracticeSpec == PracticeInit /\ [][PracticeNext]_vars

----------------------------------------------------------------------------
\* Claims.

\* C1: two submissions that carry an identical dedupe key (caller, work type,
\* text), where the first job has not reached a terminal state, create exactly
\* one job: no two distinct jobs with the same key are both non-terminal.
C1_OneLiveJobPerKey ==
  \A a, b \in JobIds :
    ( /\ a # b
      /\ jobs[a].user_id = jobs[b].user_id
      /\ jobs[a].type = jobs[b].type
      /\ jobs[a].input = jobs[b].input )
    => (Terminal(jobs[a]) \/ Terminal(jobs[b]))

C5_ReplyBeforeWork ==
  \A j \in JobIds :
    (exec[j].pc # "timer" \/ exec[j].calls > 0) => j \in replied

\* C5 witness: a text-generation call is in flight and the submitter already
\* holds the response.
C5_Witness ==
  \E j \in JobIds :
    exec[j].pc = "generate" /\ exec[j].calls = 1 /\ j \in replied

\* C6: when the text-generation call of an execution fails (transport error,
\* non-success status, unparsable body), the execution ends with the job
\* recorded with status error and a non-empty message.
C6_GenFailureRecorded ==
  [][\A j \in JobIds :
       ( /\ exec[j].pc = "upd_error"
         /\ exec[j].e \in {GenError(o) : o \in GenOutcomes \ {"ok"}}
         /\ exec'[j].pc = "finished" )
       => ( /\ jobs'[j].status = "error"
            /\ jobs'[j].error \notin {Null, ""} )]_vars

\* C7: every created job is driven to a terminal state: once its execution is
\* over (every external call made for it has returned or failed), the job is
\* done or error.
C7_FinishedIsTerminal ==
  \A j \in JobIds : exec[j].pc = "finished" => Terminal(jobs[j])

\* C8: with the store configured, a poll answers NotFound (404 with ok false)
\* for every identifier that is not in the store, and only for such
\* identifiers: a 404 is never the answer for a job that exists.
C8_NotFoundIffAbsent ==
  (supabase /\ pollResp.http # 0) =>
    /\ pollResp.id \notin JobIds => (pollResp.http = 404 /\ ~pollResp.ok)
    /\ pollResp.http = 404 => pollResp.id \notin JobIds

C10_PollReadOnlyIdempotent ==
  [][pollResp'.http # 0 =>
       /\ UNCHANGED <<jobs, inserts, exec, replied>>
       /\ ( /\ pollResp.http # 0
            /\ pollResp'.id = pollResp.id
            /\ pollResp.id \in JobIds
            /\ Terminal(jobs[pollResp.id]) )
          => ( /\ pollResp'.http = pollResp.http
               /\ pollResp'.job.status = pollResp.job.status
               /\ pollResp'.job.result = pollResp.job.result
               /\ pollResp'.job.error = pollResp.job.error )]_vars

\* C11: a submission whose text is empty or missing is rejected with 400 and
\* creates no job: no stored job has an empty input text, and no execution
\* issues a text-generation call for one.
C11_EmptyTextCreatesNoJob ==
  \A j \in JobIds : jobs[j].input # "" /\ (jobs[j].input = "" => exec[j].calls = 0)

\* C14: for each job at most one text-generation call is ever issued, no call
\* is issued once the execution has caught a failure, and a job whose call
\* failed ends recorded as error.
C14_AtMostOnceAndRecorded ==
  [][\A j \in JobIds :
       /\ exec'[j].calls <= 1
       /\ exec[j].pc \in {"upd_error", "finished"} => exec'[j].calls = exec[j].calls
       /\ ( /\ exec[j].pc = "upd_error"
            /\ exec[j].calls = 1
            /\ exec[j].e \in {GenError(o) : o \in GenOutcomes \ {"ok"}}
            /\ exec'[j].pc = "finished" )
          => jobs'[j].status = "error"]_vars

\* C12: whatever the lines and whatever each call does, the synthesis returns a list as long as its input whose entries are audio or null, and a call that succeeded has its audio in the list whatever the other calls did.
C12_SameLengthNullable ==
  tts.pc = "returned" =>
    /\ Len(tts.results) = Len(tts.lines)
    /\ \A i \in 1..Len(tts.lines) :
         /\ tts.results[i] \in {Null} \cup {Audio(t) : t \in LineTexts \ {""}}
         /\ tts.kind[i] = "ok" => tts.results[i] # Null

\* C12 witness: a synthesis has returned with one sentence's audio and a null for another sentence whose call failed.
C12_Witness ==
  /\ tts.pc = "returned"
  /\ Len(tts.results) = Len(tts.lines)
  /\ \E i, j \in 1..Len(tts.lines) :
       /\ tts.kind[i] = "ok" /\ tts.results[i] = Audio(tts.lines[i])
       /\ tts.kind[j] \in TtsOutcomes \ {"ok"} /\ tts.results[j] = Null

\* C13: entry i of the returned list is the outcome of line i (its audio if its call succeeded, null otherwise), in whatever order the calls completed.
C13_IndexAligned ==
  tts.pc = "returned" =>
    /\ Len(tts.results) = Len(tts.lines)
    /\ \A i \in 1..Len(tts.lines) :
         tts.results[i] = IF tts.kind[i] = "ok" THEN Audio(tts.lines[i]) ELSE Null

\* C13 witness: two different sentences were synthesized, the later one completed first, and each entry holds its own sentence's audio.
C13_Witness ==
  /\ tts.pc = "returned"
  /\ Len(tts.results) = Len(tts.lines)
  /\ \E i, j \in 1..Len(tts.lines) :
       /\ i < j
       /\ tts.lines[i] # tts.lines[j]
       /\ tts.kind[i] = "ok" /\ tts.kind[j] = "ok"
       /\ \E a, b \in 1..Len(tts.order) :
            a < b /\ tts.order[a] = j /\ tts.order[b] = i
       /\ tts.results[i] = Audio(tts.lines[i])
       /\ tts.results[j] = Audio(tts.lines[j])

\* C15: the call for a later sentence is issued without waiting for an earlier one: in the step that issues a call, the call of every earlier non-empty sentence is in flight.
C15_IssuedWithoutWaiting ==
  [][\A j \in tts'.inflight \ tts.inflight :
       \A i \in 1..(j - 1) :
         tts.lines[i] # "" => i \in tts'.inflight]_vars

\* C16: a successful practice result holds exactly seven sentences, every one with a non-empty text, and its audio list, where the result has one, holds seven entries, entry i being null or the audio of sentence i.
C16_SevenNonEmpty ==
  (practice.pc = "responded" /\ practice.http = 200) =>
    /\ Len(practice.arr) = PracticeCount
    /\ \A i \in 1..Len(practice.arr) : practice.arr[i].text # ""
    /\ practice.audio # NoAudio =>
         /\ Len(practice.audio) = PracticeCount
         /\ \A i \in 1..Len(practice.audio) :
              practice.audio[i] \in {Null, Audio(practice.arr[i].text)}

====
